---- MODULE Spec2Model ----
(***************************************************************************)
(* Model of src/models/v1/bid.rs: the Bid value, its construction and soft *)
(* removal against the UTC clock, and the three ranking predicates         *)
(* is_lower_bid_than, is_equivalent_bid_to and is_higher_bid_than.         *)
(*                                                                         *)
(* Two specifications are given.  PureSpec draws three arbitrary Bid       *)
(* values (the fields are pub, so any combination can be built) and        *)
(* applies one read-only method to them.  Spec is the life cycle: bids     *)
(* are built by new() and changed by remove() only, while the clock runs.  *)
(***************************************************************************)
EXTENDS Integers, FiniteSets, Sequences, TLC

\* Largest amount drawn; amounts are the i32 values -1 .. MaxAmount.
MaxAmount == 0

\* Last instant of the clock; instants are 0 .. MaxTime.
MaxTime == 1

Amounts == (-1)..MaxAmount

Times == 0..MaxTime

\* The bids of PureSpec: the operands a, b, c of the predicates.
Slots == {"a", "b", "c"}

\* The bids the life cycle builds.
LiveSlots == {"a", "b"}

\* Two identities that differ in every identity field.
Identities ==
    {[auction_id |-> "auction_id", bidder_id |-> "0", id |-> 0],
     [auction_id |-> "is_equivalent_bid_to_works", bidder_id |-> "1", id |-> 1]}

\* Option<DateTime<Utc>>: None is the empty sequence, Some(t) is <<t>>.
None == << >>

Some(t) == <<t>>

OptionTimes == {None} \cup {Some(t) : t \in Times}

\* struct Bid
Bid == [auction_id : {w.auction_id : w \in Identities},
        bidder_id : {w.bidder_id : w \in Identities},
        id : {w.id : w \in Identities},
        amount : Amounts, made_at : Times, removed_at : OptionTimes]

VARIABLES
    now,        \* the instant Utc::now() returns
    bids,       \* the Bid values that exist, by slot
    ret,        \* the last method call and the value it returned
    whenActive, \* history: the predicates' results for a pair, both active
    firstRemoval \* history: the instant of each bid's first remove()

vars == <<now, bids, ret, whenActive, firstRemoval>>

----------------------------------------------------------------------------
\* The methods of impl Bid, as operators on Bid values.

\* Bid::new, with t the instant read from the clock
new(auction_id, bidder_id, id, amount, t) ==
    [id |-> id, auction_id |-> auction_id, bidder_id |-> bidder_id,
     amount |-> amount, made_at |-> t, removed_at |-> None]

\* Bid::is_active
is_active(self) == self.removed_at = None

\* Variant of remove: a second call clears the removal time again.
remove_toggle(self, t) ==
    [self EXCEPT !.removed_at = IF is_active(self) THEN Some(t) ELSE None]

\* Variant of remove: stamps the epoch instead of the clock's instant.
remove_epoch(self, t) == [self EXCEPT !.removed_at = Some(0)]

\* Variant of remove: guarded, a removed bid keeps its first removal time.
remove_once(self, t) ==
    IF is_active(self) THEN [self EXCEPT !.removed_at = Some(t)] ELSE self

\* Bid::remove, with t the instant read from the clock
remove(self, t) == [self EXCEPT !.removed_at = Some(t)]

\* Variant of is_lower_bid_than: the amounts are compared with <=.
is_lower_bid_than_le(self, other) ==
    LET both_bids_active == is_active(self) /\ is_active(other)
        neither_bid_active == ~(is_active(self) \/ is_active(other))
        is_lower_amount == self.amount <= other.amount
        is_equal_amount == self.amount = other.amount
        is_later_bid == other.made_at < self.made_at
    IN  IF both_bids_active \/ neither_bid_active
        THEN is_lower_amount \/ (is_equal_amount /\ is_later_bid)
        ELSE ~is_active(self)

\* Variant of is_lower_bid_than: the mixed branch answers for the active bid.
is_lower_bid_than_flip(self, other) ==
    LET both_bids_active == is_active(self) /\ is_active(other)
        neither_bid_active == ~(is_active(self) \/ is_active(other))
        is_lower_amount == self.amount < other.amount
        is_equal_amount == self.amount = other.amount
        is_later_bid == other.made_at < self.made_at
    IN  IF both_bids_active \/ neither_bid_active
        THEN is_lower_amount \/ (is_equal_amount /\ is_later_bid)
        ELSE is_active(self)

\* Variant of is_lower_bid_than: on a tie the earlier bid is the lower one.
is_lower_bid_than_earlier(self, other) ==
    LET both_bids_active == is_active(self) /\ is_active(other)
        neither_bid_active == ~(is_active(self) \/ is_active(other))
        is_lower_amount == self.amount < other.amount
        is_equal_amount == self.amount = other.amount
        is_later_bid == self.made_at < other.made_at
    IN  IF both_bids_active \/ neither_bid_active
        THEN is_lower_amount \/ (is_equal_amount /\ is_later_bid)
        ELSE ~is_active(self)

\* Variant of is_lower_bid_than: no tie-break on made_at.
is_lower_bid_than_amount(self, other) ==
    LET both_bids_active == is_active(self) /\ is_active(other)
        neither_bid_active == ~(is_active(self) \/ is_active(other))
        is_lower_amount == self.amount < other.amount
        is_equal_amount == self.amount = other.amount
        is_later_bid == other.made_at < self.made_at
    IN  IF both_bids_active \/ neither_bid_active
        THEN is_lower_amount
        ELSE ~is_active(self)

\* Variant of is_lower_bid_than: two removed bids take the mixed branch.
is_lower_bid_than_active(self, other) ==
    LET both_bids_active == is_active(self) /\ is_active(other)
        neither_bid_active == ~(is_active(self) \/ is_active(other))
        is_lower_amount == self.amount < other.amount
        is_equal_amount == self.amount = other.amount
        is_later_bid == other.made_at < self.made_at
    IN  IF both_bids_active
        THEN is_lower_amount \/ (is_equal_amount /\ is_later_bid)
        ELSE ~is_active(self)

\* Bid::is_lower_bid_than
is_lower_bid_than(self, other) ==
    LET both_bids_active == is_active(self) /\ is_active(other)
        neither_bid_active == ~(is_active(self) \/ is_active(other))
        is_lower_amount == self.amount < other.amount
        is_equal_amount == self.amount = other.amount
        is_later_bid == other.made_at < self.made_at
    IN  IF both_bids_active \/ neither_bid_active
        THEN is_lower_amount \/ (is_equal_amount /\ is_later_bid)
        ELSE ~is_active(self)

\* Variant of is_equivalent_bid_to: the derived PartialEq of the struct.
is_equivalent_bid_to_eq(self, other) == self = other

\* Variant of is_equivalent_bid_to: made_at is not compared.
is_equivalent_bid_to_amount(self, other) ==
    LET both_bids_active == is_active(self) /\ is_active(other)
        neither_bid_active == ~(is_active(self) \/ is_active(other))
        is_equal_amount == self.amount = other.amount
    IN  IF both_bids_active \/ neither_bid_active
        THEN is_equal_amount
        ELSE FALSE

\* Bid::is_equivalent_bid_to
is_equivalent_bid_to(self, other) ==
    LET both_bids_active == is_active(self) /\ is_active(other)
        neither_bid_active == ~(is_active(self) \/ is_active(other))
        is_equal_amount == self.amount = other.amount
        is_simultaneous_bid == other.made_at = self.made_at
    IN  IF both_bids_active \/ neither_bid_active
        THEN is_equal_amount /\ is_simultaneous_bid
        ELSE FALSE

\* Bid::is_higher_bid_than
is_higher_bid_than(self, other) ==
    ~is_lower_bid_than(self, other) /\ ~is_equivalent_bid_to(self, other)

----------------------------------------------------------------------------
\* History: what the three predicates return for an ordered pair.
Rank(self, other) ==
    <<is_lower_bid_than(self, other), is_equivalent_bid_to(self, other),
      is_higher_bid_than(self, other)>>

\* The pairs of existing bids that are both active in bs.
ActivePairs(bs) ==
    {p \in (DOMAIN bs) \X (DOMAIN bs) : is_active(bs[p[1]]) /\ is_active(bs[p[2]])}

\* Keeps the first results recorded for a pair while both were active.
Observe(bs) ==
    [p \in (DOMAIN whenActive) \cup ActivePairs(bs) |->
        IF p \in DOMAIN whenActive THEN whenActive[p]
        ELSE Rank(bs[p[1]], bs[p[2]])]

Call(op, self, other, val) ==
    [op |-> op, self |-> self, other |-> other, val |-> val]

----------------------------------------------------------------------------
\* The steps.

\* Time passes between two reads of Utc::now().  The clock is taken never to
\* step backwards; two reads may return the same instant.
Tick ==
    /\ now < MaxTime
    /\ now' = now + 1
    /\ UNCHANGED <<bids, ret, whenActive, firstRemoval>>

\* let bid = Bid::new(auction_id, bidder_id, id, amount)
CallNew(s) ==
    /\ s \in LiveSlots \ DOMAIN bids
    /\ \E who \in Identities, amount \in Amounts :
          bids' = [x \in (DOMAIN bids) \cup {s} |->
                      IF x = s
                      THEN new(who.auction_id, who.bidder_id, who.id, amount, now)
                      ELSE bids[x]]
    /\ ret' = Call("new", s, s, TRUE)
    /\ whenActive' = Observe(bids')
    /\ UNCHANGED <<now, firstRemoval>>

\* bid.remove()
CallRemove(s) ==
    /\ s \in DOMAIN bids
    /\ bids' = [bids EXCEPT ![s] = remove(bids[s], now)]
    /\ ret' = Call("remove", s, s, TRUE)
    /\ whenActive' = Observe(bids')
    /\ firstRemoval' = [x \in (DOMAIN firstRemoval) \cup {s} |->
                            IF x \in DOMAIN firstRemoval THEN firstRemoval[x]
                            ELSE now]
    /\ UNCHANGED now

\* bid.is_active()
CallIsActive(s) ==
    /\ s \in DOMAIN bids
    /\ ret' = Call("is_active", s, s, is_active(bids[s]))
    /\ UNCHANGED <<now, bids, whenActive, firstRemoval>>

\* bid.is_lower_bid_than(&other)
CallIsLowerBidThan(s, o) ==
    /\ s \in DOMAIN bids /\ o \in DOMAIN bids
    /\ ret' = Call("is_lower_bid_than", s, o, is_lower_bid_than(bids[s], bids[o]))
    /\ UNCHANGED <<now, bids, whenActive, firstRemoval>>

\* bid.is_equivalent_bid_to(&other)
CallIsEquivalentBidTo(s, o) ==
    /\ s \in DOMAIN bids /\ o \in DOMAIN bids
    /\ ret' = Call("is_equivalent_bid_to", s, o,
                   is_equivalent_bid_to(bids[s], bids[o]))
    /\ UNCHANGED <<now, bids, whenActive, firstRemoval>>

\* bid.is_higher_bid_than(&other)
CallIsHigherBidThan(s, o) ==
    /\ s \in DOMAIN bids /\ o \in DOMAIN bids
    /\ ret' = Call("is_higher_bid_than", s, o,
                   is_higher_bid_than(bids[s], bids[o]))
    /\ UNCHANGED <<now, bids, whenActive, firstRemoval>>

NoCall == Call("none", "a", "a", TRUE)

\* Life cycle: no bid exists yet.
Init ==
    /\ now = 0
    /\ bids = [x \in {} |-> 0]
    /\ ret = NoCall
    /\ whenActive = [p \in {} |-> 0]
    /\ firstRemoval = [x \in {} |-> 0]

Next ==
    \/ Tick
    \/ \E s \in Slots : CallNew(s)
    \/ \E s \in Slots : CallRemove(s)
    \/ \E s \in Slots : CallIsActive(s)
    \/ \E s, o \in Slots : CallIsLowerBidThan(s, o)
    \/ \E s, o \in Slots : CallIsEquivalentBidTo(s, o)
    \/ \E s, o \in Slots : CallIsHigherBidThan(s, o)

Spec == Init /\ [][Next]_vars

\* The identity a bid of PureSpec carries: a and b share one, c has the
\* other, so that pairs of equal and of different identity both meet every
\* combination of amount, made_at and removed_at.
IdentityOf(s) ==
    CHOOSE who \in Identities : who.id = (IF s = "c" THEN 1 ELSE 0)

\* Pure functions: three Bid values, any amount, made_at and removed_at.
PureInit ==
    /\ now = 0
    /\ \E v \in [Slots -> [amount : Amounts, made_at : Times,
                            removed_at : OptionTimes]] :
          bids = [s \in Slots |->
                     [auction_id |-> IdentityOf(s).auction_id,
                      bidder_id |-> IdentityOf(s).bidder_id,
                      id |-> IdentityOf(s).id,
                      amount |-> v[s].amount, made_at |-> v[s].made_at,
                      removed_at |-> v[s].removed_at]]
    /\ ret = NoCall
    /\ whenActive = [p \in {} |-> 0]
    /\ firstRemoval = [x \in {} |-> 0]

\* One read-only method is applied to the drawn bids.
ApplyIsActive(s) == ret = NoCall /\ CallIsActive(s)

ApplyIsLowerBidThan(s, o) == ret = NoCall /\ CallIsLowerBidThan(s, o)

ApplyIsEquivalentBidTo(s, o) == ret = NoCall /\ CallIsEquivalentBidTo(s, o)

ApplyIsHigherBidThan(s, o) == ret = NoCall /\ CallIsHigherBidThan(s, o)

PureNext ==
    \/ \E s \in Slots : ApplyIsActive(s)
    \/ \E s, o \in Slots : ApplyIsLowerBidThan(s, o)
    \/ \E s, o \in Slots : ApplyIsEquivalentBidTo(s, o)
    \/ \E s, o \in Slots : ApplyIsHigherBidThan(s, o)

PureSpec == PureInit /\ [][PureNext]_vars

----------------------------------------------------------------------------
\* Properties of the predicates (PureSpec).

SameClass(x, y) == is_active(x) = is_active(y)

Count(x, y) ==
    (IF is_lower_bid_than(x, y) THEN 1 ELSE 0)
    + (IF is_equivalent_bid_to(x, y) THEN 1 ELSE 0)
    + (IF is_higher_bid_than(x, y) THEN 1 ELSE 0)

\* C1: for all bids a and b, a = b included, exactly one of
\* a.is_lower_bid_than(b), a.is_equivalent_bid_to(b), a.is_higher_bid_than(b)
\* is true.
C1_Partition ==
    \A s, o \in DOMAIN bids : Count(bids[s], bids[o]) = 1

\* is_lower_bid_than has just answered true on two bids of equal made_at.
C1_Witness ==
    /\ ret.op = "is_lower_bid_than" /\ ret.val
    /\ ret.self # ret.other
    /\ bids[ret.self].made_at = bids[ret.other].made_at
    /\ SameClass(bids[ret.self], bids[ret.other])
    /\ ~is_equivalent_bid_to(bids[ret.self], bids[ret.other])
    /\ ~is_higher_bid_than(bids[ret.self], bids[ret.other])

\* C2: an active bid a is higher than an inactive bid b, a is not equivalent
\* to b, and b is lower than a, whatever the amounts and the made_at instants.
C2_ActiveDominance ==
    \A s, o \in DOMAIN bids :
        (is_active(bids[s]) /\ ~is_active(bids[o])) =>
            /\ is_higher_bid_than(bids[s], bids[o])
            /\ ~is_equivalent_bid_to(bids[s], bids[o])
            /\ is_lower_bid_than(bids[o], bids[s])

\* is_higher_bid_than has just answered true for an active bid against a
\* removed bid of greater amount and earlier made_at.
C2_Witness ==
    /\ ret.op = "is_higher_bid_than" /\ ret.val
    /\ is_active(bids[ret.self]) /\ ~is_active(bids[ret.other])
    /\ bids[ret.self].amount < bids[ret.other].amount
    /\ bids[ret.other].made_at < bids[ret.self].made_at

\* C3: for two bids of the same class and equal amount, the one made earlier
\* is higher than the other and the other is lower than it.
C3_TieBreak ==
    \A s, o \in DOMAIN bids :
        (/\ SameClass(bids[s], bids[o])
         /\ bids[s].amount = bids[o].amount
         /\ bids[s].made_at < bids[o].made_at) =>
            /\ is_higher_bid_than(bids[s], bids[o])
            /\ is_lower_bid_than(bids[o], bids[s])

\* is_higher_bid_than has just answered true for the earlier of two removed
\* bids of equal amount.
C3_Witness ==
    /\ ret.op = "is_higher_bid_than" /\ ret.val
    /\ ~is_active(bids[ret.self]) /\ ~is_active(bids[ret.other])
    /\ bids[ret.self].amount = bids[ret.other].amount
    /\ bids[ret.self].made_at < bids[ret.other].made_at

\* C4: if a is lower than b then b is not lower than a and b is higher
\* than a.
C4_AntiSymmetry ==
    \A s, o \in DOMAIN bids :
        is_lower_bid_than(bids[s], bids[o]) =>
            /\ ~is_lower_bid_than(bids[o], bids[s])
            /\ is_higher_bid_than(bids[o], bids[s])

\* is_lower_bid_than has just answered true on a tie in amount.
C4_Witness ==
    /\ ret.op = "is_lower_bid_than" /\ ret.val
    /\ bids[ret.self].amount = bids[ret.other].amount
    /\ is_higher_bid_than(bids[ret.other], bids[ret.self])

\* C5: is_lower_bid_than is irreflexive and transitive; is_equivalent_bid_to
\* is reflexive, symmetric and transitive, and a is equivalent to b exactly
\* when neither is lower than the other.
C5_StrictWeakOrder ==
    /\ \A x \in DOMAIN bids :
          /\ ~is_lower_bid_than(bids[x], bids[x])
          /\ is_equivalent_bid_to(bids[x], bids[x])
    /\ \A x, y \in DOMAIN bids :
          /\ is_equivalent_bid_to(bids[x], bids[y])
                => is_equivalent_bid_to(bids[y], bids[x])
          /\ is_equivalent_bid_to(bids[x], bids[y])
                <=> (/\ ~is_lower_bid_than(bids[x], bids[y])
                     /\ ~is_lower_bid_than(bids[y], bids[x]))
    /\ \A x, y, z \in DOMAIN bids :
          /\ (is_lower_bid_than(bids[x], bids[y])
               /\ is_lower_bid_than(bids[y], bids[z]))
                => is_lower_bid_than(bids[x], bids[z])
          /\ (is_equivalent_bid_to(bids[x], bids[y])
               /\ is_equivalent_bid_to(bids[y], bids[z]))
                => is_equivalent_bid_to(bids[x], bids[z])

\* is_lower_bid_than has just answered true for a against c, where a is lower
\* than b by the tie-break, b is removed and c is active.
C5_Witness ==
    /\ ret.op = "is_lower_bid_than" /\ ret.val
    /\ ret.self = "a" /\ ret.other = "c"
    /\ is_lower_bid_than(bids["a"], bids["b"])
    /\ is_lower_bid_than(bids["b"], bids["c"])
    /\ bids["a"].amount = bids["b"].amount
    /\ ~is_active(bids["b"]) /\ is_active(bids["c"])

\* C6: a is equivalent to b exactly when both are of the same class, of equal
\* amount and of equal made_at; identity and the instant of removal play no
\* part.
C6_Equivalence ==
    \A s, o \in DOMAIN bids :
        is_equivalent_bid_to(bids[s], bids[o]) <=>
            /\ SameClass(bids[s], bids[o])
            /\ bids[s].amount = bids[o].amount
            /\ bids[s].made_at = bids[o].made_at

\* is_equivalent_bid_to has just answered true on two removed bids that
\* differ in every identity field and in removed_at.
C6_Witness ==
    /\ ret.op = "is_equivalent_bid_to" /\ ret.val
    /\ bids[ret.self].id # bids[ret.other].id
    /\ bids[ret.self].auction_id # bids[ret.other].auction_id
    /\ bids[ret.self].bidder_id # bids[ret.other].bidder_id
    /\ ~is_active(bids[ret.self])
    /\ bids[ret.self].removed_at # bids[ret.other].removed_at

----------------------------------------------------------------------------
\* Properties of the life cycle (Spec).

\* The step is a call of remove() on s: only remove() leaves ret at a
\* "remove" call without moving the clock.
RemoveStep(s) ==
    /\ s \in DOMAIN bids
    /\ ret'.op = "remove" /\ ret'.self = s
    /\ now' = now

\* C7: a bid built by new starts active, remove() makes it removed, and a
\* removed bid is never active again.
C7_OneWay ==
    [][\A s \in LiveSlots :
         /\ (s \notin DOMAIN bids /\ s \in DOMAIN bids') => is_active(bids'[s])
         /\ RemoveStep(s) => ~is_active(bids'[s])
         /\ (s \in DOMAIN bids /\ ~is_active(bids[s])) =>
                (s \in DOMAIN bids' /\ ~is_active(bids'[s]))]_vars

\* is_active() has just answered false on a bid removed twice, at two
\* different instants.
C7_Witness ==
    /\ ret.op = "is_active" /\ ~ret.val
    /\ ret.self \in DOMAIN firstRemoval
    /\ bids[ret.self].removed_at # Some(firstRemoval[ret.self])

C9_RemoveOverwrites ==
    [][\A s \in LiveSlots :
         RemoveStep(s) =>
            /\ bids'[s] = [bids[s] EXCEPT !.removed_at = Some(now)]
            /\ ~is_active(bids'[s])
            /\ \A t \in Times :
                  (bids[s].removed_at = Some(t) /\ t < now) =>
                      bids'[s].removed_at # Some(t)]_vars

\* remove() has just acted on a bid first removed at an earlier instant.
C9_Witness ==
    /\ ret.op = "remove"
    /\ ret.self \in DOMAIN firstRemoval
    /\ firstRemoval[ret.self] < now
    /\ bids[ret.self].removed_at = Some(now)

\* C10: two bids that were active together and are now both removed are
\* ranked by each predicate as they were while both were active; while only
\* one of the two is removed, that one is lower than the other.
C10_RemovedRankedAsActive ==
    /\ \A p \in DOMAIN whenActive :
          (~is_active(bids[p[1]]) /\ ~is_active(bids[p[2]])) =>
              Rank(bids[p[1]], bids[p[2]]) = whenActive[p]
    /\ \A s, o \in DOMAIN bids :
          (~is_active(bids[s]) /\ is_active(bids[o])) =>
              is_lower_bid_than(bids[s], bids[o])

\* is_higher_bid_than has just answered true on two removed bids, as it did
\* while both were active; the higher one was removed first and again later.
C10_Witness ==
    /\ ret.op = "is_higher_bid_than" /\ ret.val
    /\ ret.self # ret.other
    /\ <<ret.self, ret.other>> \in DOMAIN whenActive
    /\ whenActive[<<ret.self, ret.other>>] = <<FALSE, FALSE, TRUE>>
    /\ ~is_active(bids[ret.self]) /\ ~is_active(bids[ret.other])
    /\ bids[ret.self].removed_at # Some(firstRemoval[ret.self])
    /\ firstRemoval[ret.self] < firstRemoval[ret.other]

====
